---- MODULE Spec2Model ----
(***************************************************************************)
(* The "start demo" orchestration of the voice agent                       *)
(* (present_demo_to_user in app/voice_agent/tools.py, run_demo in          *)
(* app/voice_agent/agent.py): a browser automation is started as a         *)
(* background asyncio task, the process-wide live-URL slot is polled, the  *)
(* URL is relayed to the front end over RPC and a result is returned.      *)
(*                                                                         *)
(* asyncio is cooperative: a coroutine runs without interruption from one  *)
(* await to the next, so every action below is the code between two        *)
(* awaits of one coroutine.                                                *)
(*                                                                         *)
(* Time is counted in ticks; HalfSecond ticks make 0.5 s.                  *)
(***************************************************************************)
EXTENDS Integers, FiniteSets, Sequences, TLC

\* ------------------------------------------------------------------ bounds
\* invocations of the tool in one process
NumRuns == 2
\* invocations that may be between call and return at once
MaxInFlight == 1
\* clock ticks in 0.5 s
HalfSecond == 2
\* largest timeout (ticks) of the parametric poller
MaxTimeout == 5
\* largest interval (ticks) of the parametric poller
MaxInterval == 3
\* agent subprocesses spawned in one server process
MaxSpawns == 2

\* --------------------------------------------------------------- constants
wait_interval == HalfSecond             \* wait_interval = 0.5  (seconds)
max_wait_time == 15 * 2 * HalfSecond    \* max_wait_time = 15   (seconds)
response_timeout == 10 * 2 * HalfSecond \* response_timeout=10.0 (seconds)

Runs == 1..NumRuns
None == 0                       \* Python None
Url(r) == r                     \* the live URL of the browser of run r
Urls == {Url(r) : r \in Runs}

RPC_METHOD == "presentDemoToUser"
LaunchErrors == {"missing credentials"}
\* what get_job_context().room shows when the relay step looks at it
RoomStates == {"no_context", "no_room", "no_peers", "peer"}
RpcOutcomes == {"ok", "timeout", "error"}

VARIABLES
    signal,           \* the process-wide live-URL slot read by get_live_url()
    T, I,             \* timeout and interval of the polling loop, in ticks
    overlap,          \* how many invocations the caller lets run at once
    clock,            \* whether the time an invocation takes is recorded
    pc,               \* per run: "idle", "sleeping", "rpc", "responded"
    waited,           \* per run: local variable waited
    live_url,         \* per run: local variable live_url
    sleeps, reads,    \* per run: asyncio.sleep calls begun / get_live_url calls
    room_seen,        \* per run: what the relay step found as the room
    rpc_calls,        \* per run: perform_rpc calls issued
    rpc_payload,      \* per run: payload of the perform_rpc call in flight
    automation_task,  \* per run: "none", "running", "url_written" / "no_url"
                      \*   (running, the creation callback has fired and has /
                      \*   has not stored a URL), "finished", "crashed"
                      \*   (ended by an unhandled exception), "cancelled"
    stale_for,        \* runs invoked after the slot's current value was written
    returned,         \* the return of the tool made by the step just taken
                      \*   (NoReturn when the step made none) and what
                      \*   run_automation printed in it
    is_running,       \* VoiceAgentService.is_running
    agent_process,    \* VoiceAgentService.agent_process: None or a handle
    proc,             \* per handle: "none", "running", "terminating", "exited"
    spawned,          \* subprocess.Popen calls that returned a handle
    server,           \* lifespan: "starting", "serving", "stopped", "crashed"
    svc_event         \* the call on the service made by the step just taken

\* the variables of the start-demo orchestration
ovars == <<signal, T, I, overlap, clock, pc, waited, live_url, sleeps, reads,
           room_seen, rpc_calls, rpc_payload, automation_task, stale_for,
           returned>>

\* the variables of the server and its voice agent service
svars == <<is_running, agent_process, proc, spawned, server, svc_event>>

vars == <<ovars, svars>>

\* ------------------------------------------------------------ SharedSignal
\* the slot is cleared at the start of a run
reset(s) == None

\* the creation callback stores the URL if it is non-empty
write(s, value) == IF value # None THEN value ELSE s

get_live_url(s) == s

AfterReadCleared(s) == None

\* the slot after a read: read() has no side effect
AfterRead(s) == s

\* ------------------------------------------------------------------ poller
\* Python truthiness of live_url (None is falsy)
Truthy(url) == url # None

LoopCondInclusive(w, url, timeout) == w <= timeout /\ ~Truthy(url)

LoopCondShort(w, url, timeout) == w + wait_interval < timeout /\ ~Truthy(url)

\* while waited < max_wait_time and not live_url
LoopCond(w, url, timeout) == w < timeout /\ ~Truthy(url)

\* waited += wait_interval
NextWaited(w, interval) == w + interval

NextSleepsNone(n) == n

\* await asyncio.sleep(wait_interval): one sleep in every iteration
NextSleeps(n) == n + 1

\* if live_url: ... break
Break(url) == Truthy(url)

KeepPollingIgnoreUrl(w, url, timeout) == w < timeout

\* the loop goes round again: no break, and the while condition holds
KeepPolling(w, url, timeout) == ~Break(url) /\ LoopCond(w, url, timeout)

\* -------------------------------------------------------------- the result
SuccessResultNoUrl(url) ==
    [kind |-> "success", success |-> TRUE, message |-> "Here is the demo.",
     live_url |-> None]

SuccessResult(url) ==
    [kind |-> "success", success |-> TRUE, message |-> "Here is the demo.",
     live_url |-> url]

ErrorResultWithSuccess(msg) ==
    [kind |-> "error", success |-> FALSE,
     error |-> "Unable to start demo: " \o msg]

ErrorResultBare(msg) == [kind |-> "error", error |-> msg]

\* return {"error": f"Unable to start demo: {str(e)}"}
ErrorResult(msg) ==
    [kind |-> "error", error |-> "Unable to start demo: " \o msg]

\* ------------------------------------------------------------------- relay
ShouldRelayAlways(url) == TRUE

\* if live_url:
ShouldRelay(url) == Truthy(url)

RelayGuardAnyRoom(room) == room # "no_context"

\* if room and room.remote_participants (get_job_context() did not raise)
RelayGuard(room) == room = "peer"

RelayPayloadNoUrl(url) == [liveUrl |-> None, type |-> "demo"]

\* payload=json.dumps({"liveUrl": live_url, "type": "demo"})
RelayPayload(url) == [liveUrl |-> url, type |-> "demo"]

AfterRelayRaise(out, url) ==
    IF out = "ok" THEN SuccessResult(url) ELSE ErrorResult(out)

\* except Exception as e: print(...), then the return statement
AfterRelay(out, url) == SuccessResult(url)

RetryRelayOnFailure(out) == out # "ok"

\* perform_rpc is called once, outside any loop: its failure is not retried
RetryRelay(out) == FALSE

\* how long perform_rpc keeps the caller waiting: it answers or fails at
\* once at the earliest, and gives up after response_timeout
RpcWaits(out) == IF out = "timeout" THEN {response_timeout} ELSE {0}

NoPayload == [liveUrl |-> None, type |-> "none"]

NoReturn == [run |-> 0, result |-> [kind |-> "none"], room |-> "none",
             relay |-> "none", rpc_calls |-> 0, payload |-> NoPayload,
             took |-> 0, printed |-> "none"]

ReturnGuardJoined(task) == task = "finished"

\* the return statements are not preceded by an await of automation_task
ReturnGuard(task) == TRUE

TaskOnReturnCancelled(task) ==
    IF task \in {"running", "url_written", "no_url"} THEN "cancelled" ELSE task

\* automation_task.cancel() is never called: the task is left as it is
TaskOnReturn(task) == task

\* a time, recorded only when the clock is on
Stamp(t) == IF clock THEN t ELSE 0

\* return {...}: the coroutine ends, its locals are gone; took is the time
\* since the invocation
Return(r, res, room, how, calls, payload, took) ==
    /\ ReturnGuard(automation_task[r])
    /\ pc' = [pc EXCEPT ![r] = "responded"]
    /\ returned' = [run |-> r, result |-> res, room |-> room, relay |-> how,
                    rpc_calls |-> calls, payload |-> payload,
                    took |-> Stamp(took), printed |-> "none"]
    /\ waited' = [waited EXCEPT ![r] = 0]
    /\ live_url' = [live_url EXCEPT ![r] = None]
    /\ sleeps' = [sleeps EXCEPT ![r] = 0]
    /\ reads' = [reads EXCEPT ![r] = 0]
    /\ room_seen' = [room_seen EXCEPT ![r] = "none"]
    /\ rpc_calls' = [rpc_calls EXCEPT ![r] = 0]
    /\ rpc_payload' = [rpc_payload EXCEPT ![r] = NoPayload]

\* The code from the end of the polling loop, w after the invocation, to the
\* next await or the return.
AfterLoop(r, url, w) ==
    IF ShouldRelay(url)
    THEN \E room \in RoomStates :
            IF RelayGuard(room)
            THEN \* await room.local_participant.perform_rpc(...)
                 /\ pc' = [pc EXCEPT ![r] = "rpc"]
                 /\ room_seen' = [room_seen EXCEPT ![r] = room]
                 /\ rpc_calls' = [rpc_calls EXCEPT ![r] = @ + 1]
                 /\ rpc_payload' = [rpc_payload EXCEPT ![r] = RelayPayload(url)]
                 /\ live_url' = [live_url EXCEPT ![r] = url]
                 /\ waited' = [waited EXCEPT ![r] = Stamp(w)]
                 /\ sleeps' = [sleeps EXCEPT ![r] = 0]
                 /\ reads' = [reads EXCEPT ![r] = 0]
                 /\ returned' = NoReturn
            ELSE \* no peer to call, or get_job_context() raised and the
                 \* exception was printed
                 Return(r, SuccessResult(url), room, "none", rpc_calls[r],
                        NoPayload, w)
    ELSE Return(r, SuccessResult(url), "none", "none", rpc_calls[r], NoPayload,
                w)

\* ------------------------------------------------------------ orchestration
create_task_forgotten(task) == task

\* automation_task = asyncio.create_task(run_automation())
create_task(task) == "running"

CreateSandboxedTaskKeep(s) == s

\* _create_sandboxed_task(demo_task): clears the slot and builds the task
CreateSandboxedTask(s) == reset(s)

\* the invocations that have been called and have not returned
InFlight == {q \in Runs : pc[q] \in {"sleeping", "rpc"}}

\* The tool is invoked: everything up to the first await asyncio.sleep.
Invoke(r) ==
    /\ pc[r] = "idle"
    /\ Cardinality(InFlight) < overlap
    /\ \/ \* the import or _create_sandboxed_task raises
          \E msg \in LaunchErrors, s \in {signal, CreateSandboxedTask(signal)} :
            /\ signal' = s
            /\ stale_for' = IF s = None THEN {} ELSE stale_for
            /\ Return(r, ErrorResult(msg), "none", "none", 0, NoPayload, 0)
            /\ UNCHANGED automation_task
       \/ /\ signal' = CreateSandboxedTask(signal)
          /\ stale_for' = IF signal' = None THEN {} ELSE stale_for \cup {r}
          /\ automation_task' = [automation_task EXCEPT ![r] = create_task(@)]
          /\ IF LoopCond(0, None, T)
             THEN \* await asyncio.sleep(wait_interval)
                  /\ pc' = [pc EXCEPT ![r] = "sleeping"]
                  /\ waited' = [waited EXCEPT ![r] = 0]
                  /\ live_url' = [live_url EXCEPT ![r] = None]
                  /\ sleeps' = [sleeps EXCEPT ![r] = NextSleeps(0)]
                  /\ returned' = NoReturn
                  /\ UNCHANGED <<reads, room_seen, rpc_calls, rpc_payload>>
             ELSE AfterLoop(r, None, 0)
    /\ UNCHANGED <<T, I, overlap, clock, svars>>

\* asyncio.sleep returns: the rest of the loop body, the loop test, and what
\* follows up to the next await.
Wake(r) ==
    /\ pc[r] = "sleeping"
    /\ LET w == NextWaited(waited[r], I)
           url == get_live_url(signal)
       IN IF KeepPolling(w, url, T)
          THEN \* await asyncio.sleep(wait_interval)
               /\ waited' = [waited EXCEPT ![r] = w]
               /\ live_url' = [live_url EXCEPT ![r] = url]
               /\ reads' = [reads EXCEPT ![r] = @ + 1]
               /\ sleeps' = [sleeps EXCEPT ![r] = NextSleeps(@)]
               /\ returned' = NoReturn
               /\ UNCHANGED <<pc, room_seen, rpc_calls, rpc_payload>>
          ELSE AfterLoop(r, url, w)
    /\ automation_task' = [automation_task EXCEPT
          ![r] = IF pc'[r] = "responded" THEN TaskOnReturn(@) ELSE @]
    /\ signal' = AfterRead(signal)
    /\ UNCHANGED <<T, I, overlap, clock, stale_for, svars>>

\* perform_rpc returns or raises; the exception is caught and printed.
RpcReturn(r) ==
    /\ pc[r] = "rpc"
    /\ \E out \in RpcOutcomes :
         \E d \in RpcWaits(out) :
            IF RetryRelay(out)
            THEN /\ rpc_calls' = [rpc_calls EXCEPT ![r] = @ + 1]
                 /\ waited' = [waited EXCEPT ![r] = Stamp(@ + d)]
                 /\ returned' = NoReturn
                 /\ UNCHANGED <<pc, live_url, sleeps, reads, room_seen,
                                rpc_payload>>
            ELSE Return(r, AfterRelay(out, live_url[r]), room_seen[r], out,
                        rpc_calls[r], rpc_payload[r], waited[r] + d)
    /\ automation_task' = [automation_task EXCEPT
          ![r] = IF pc'[r] = "responded" THEN TaskOnReturn(@) ELSE @]
    /\ UNCHANGED <<signal, T, I, overlap, clock, stale_for, svars>>

\* ------------------------------------------------------- automation engine
\* The engine's creation callback fires (at most once per run).
EngineNotify(r) ==
    /\ automation_task[r] = "running"
    /\ \E value \in {None, Url(r)} :
         /\ signal' = write(signal, value)
         /\ stale_for' = IF value # None THEN {} ELSE stale_for
         /\ automation_task' = [automation_task EXCEPT
               ![r] = IF value # None THEN "url_written" ELSE "no_url"]
    /\ returned' = NoReturn
    /\ UNCHANGED <<T, I, overlap, clock, pc, waited, live_url, sleeps, reads,
                   room_seen, rpc_calls, rpc_payload, svars>>

run_automation_unhandled(raised) ==
    IF raised
    THEN [task |-> "crashed", printed |-> "none"]
    ELSE [task |-> "finished", printed |-> "Demo automation completed"]

\* try: result = await sandboxed_task() ... except Exception as e: print(...)
run_automation(raised) ==
    [task |-> "finished",
     printed |-> IF raised THEN "Demo automation error"
                           ELSE "Demo automation completed"]

\* run_automation ends: the engine returned its result, or raised
EngineEnd(r) ==
    /\ automation_task[r] \in {"running", "url_written", "no_url"}
    /\ \E raised \in BOOLEAN :
         LET end == run_automation(raised)
         IN /\ automation_task' = [automation_task EXCEPT ![r] = end.task]
            /\ returned' = [NoReturn EXCEPT !.printed = end.printed]
    /\ UNCHANGED <<signal, T, I, overlap, clock, pc, waited, live_url, sleeps,
                   reads, room_seen, rpc_calls, rpc_payload, stale_for, svars>>

\* ----------------------------------------------------- voice agent service
Handles == 1..MaxSpawns

\* the methods class VoiceAgentService defines
ServiceMethods == {"__init__", "_start_agent", "_stop_agent"}

\* voice_agent_service.<name>: AttributeError unless the class defines it
HasMethod(name) == name \in ServiceMethods

PopenOutcomes == {"ok", "raise"}
TerminateOutcomes == {"ok", "raise"}
\* wait(timeout=5): the process exits in time, TimeoutExpired, another error
WaitOutcomes == {"exited", "timeout", "raise"}
KillOutcomes == {"ok", "raise"}

NoEvent == [call |-> "none", was_running |-> FALSE, before |-> None,
            ops |-> <<>>, wait |-> "none", raised |-> FALSE,
            caught |-> FALSE, status |-> "none"]

StartGuardNone(running) == TRUE

\* if self.is_running: ... return
StartGuard(running) == ~running

\* if not self.is_running: ... return
StopGuard(running) == running

\* _start_agent's body; out is what subprocess.Popen does
DoStart(out) ==
    IF StartGuard(is_running) /\ out = "ok"
    THEN /\ spawned' = spawned + 1
         /\ agent_process' = spawned + 1
         /\ is_running' = TRUE
         /\ proc' = [proc EXCEPT ![spawned + 1] = "running"]
    ELSE UNCHANGED <<spawned, agent_process, is_running, proc>>

\* except Exception as e: logger.error(...); raise
StartRaises(out) == StartGuard(is_running) /\ out = "raise"

\* the calls _start_agent makes
StartOps(out) == IF StartGuard(is_running) THEN <<"Popen">> ELSE <<>>

\* what Popen may do here (a handle is left to give out, or it raises)
PopenMay == IF spawned < MaxSpawns THEN PopenOutcomes ELSE {"raise"}

NeedsKillAlways(w) == TRUE

\* except subprocess.TimeoutExpired: kill() and wait()
NeedsKill(w) == w = "timeout"

\* the calls made on the process by the try body of _stop_agent, and whether
\* the body ran to its end
StopSequence(term, w1, k, w2) ==
    IF term = "raise"
    THEN [ops |-> <<"terminate">>, completed |-> FALSE]
    ELSE IF NeedsKill(w1)
    THEN IF k = "raise"
         THEN [ops |-> <<"terminate", "wait", "kill">>, completed |-> FALSE]
         ELSE [ops |-> <<"terminate", "wait", "kill", "wait">>,
               completed |-> w2 # "raise"]
    ELSE [ops |-> <<"terminate", "wait">>, completed |-> w1 # "raise"]

StopStateFinally(completed, handle) ==
    [agent_process |-> IF completed THEN None ELSE handle,
     is_running |-> FALSE]

\* self.agent_process = None; self.is_running = False, reached only when
\* nothing raised
StopState(completed, handle) ==
    IF completed
    THEN [agent_process |-> None, is_running |-> FALSE]
    ELSE [agent_process |-> handle, is_running |-> TRUE]

\* the calls _stop_agent makes, given what they do
StopOps(term, w1, k, w2) ==
    IF StopGuard(is_running) /\ agent_process # None
    THEN StopSequence(term, w1, k, w2).ops
    ELSE <<>>

\* except Exception as e: logger.error(...): an exception of the try body
\* is caught inside _stop_agent
StopCaught(term, w1, k, w2) ==
    /\ StopGuard(is_running)
    /\ agent_process # None
    /\ ~StopSequence(term, w1, k, w2).completed

\* _stop_agent's body
DoStop(term, w1, k, w2) ==
    IF ~StopGuard(is_running)
    THEN UNCHANGED <<spawned, agent_process, is_running, proc>>
    ELSE IF agent_process = None
    THEN /\ is_running' = FALSE
         /\ UNCHANGED <<spawned, agent_process, proc>>
    ELSE LET seq == StopSequence(term, w1, k, w2)
             st == StopState(seq.completed, agent_process)
         IN /\ agent_process' = st.agent_process
            /\ is_running' = st.is_running
            /\ proc' = [proc EXCEPT ![agent_process] =
                          IF seq.completed THEN "exited"
                          ELSE IF Len(seq.ops) > 1 THEN "terminating"
                          ELSE @]
            /\ UNCHANGED spawned

\* a direct call of voice_agent_service._start_agent()
StartAgent ==
    /\ \E out \in PopenMay :
         /\ DoStart(out)
         /\ svc_event' = [NoEvent EXCEPT !.call = "_start_agent",
                                         !.was_running = is_running,
                                         !.before = agent_process,
                                         !.ops = StartOps(out),
                                         !.raised = StartRaises(out)]
    /\ UNCHANGED <<server, ovars>>

\* a direct call of voice_agent_service._stop_agent()
StopAgent ==
    /\ \E term \in TerminateOutcomes, w1 \in WaitOutcomes,
          k \in KillOutcomes, w2 \in WaitOutcomes \ {"timeout"} :
         /\ DoStop(term, w1, k, w2)
         /\ svc_event' = [NoEvent EXCEPT !.call = "_stop_agent",
                                         !.was_running = is_running,
                                         !.before = agent_process,
                                         !.ops = StopOps(term, w1, k, w2),
                                         !.wait = w1,
                                         !.caught =
                                            StopCaught(term, w1, k, w2)]
    /\ UNCHANGED <<server, ovars>>

\* POST /voice-agent/start
RouteStartAgent ==
    /\ server = "serving"
    /\ IF is_running
       THEN /\ svc_event' = [NoEvent EXCEPT !.call = "POST /voice-agent/start",
                                            !.was_running = TRUE,
                                            !.before = agent_process,
                                            !.status = "already_running"]
            /\ UNCHANGED <<spawned, agent_process, is_running, proc>>
       ELSE IF HasMethod("start_agent")
       THEN \E out \in PopenMay :
              /\ DoStart(out)
              /\ svc_event' = [NoEvent EXCEPT
                    !.call = "POST /voice-agent/start",
                    !.before = agent_process,
                    !.ops = StartOps(out),
                    !.status = IF StartRaises(out) THEN "500" ELSE "started"]
       ELSE \* AttributeError, caught: HTTPException(status_code=500)
            /\ svc_event' = [NoEvent EXCEPT !.call = "POST /voice-agent/start",
                                            !.before = agent_process,
                                            !.status = "500"]
            /\ UNCHANGED <<spawned, agent_process, is_running, proc>>
    /\ UNCHANGED <<server, ovars>>

\* POST /voice-agent/stop
RouteStopAgent ==
    /\ server = "serving"
    /\ IF ~is_running
       THEN /\ svc_event' = [NoEvent EXCEPT !.call = "POST /voice-agent/stop",
                                            !.before = agent_process,
                                            !.status = "already_stopped"]
            /\ UNCHANGED <<spawned, agent_process, is_running, proc>>
       ELSE IF HasMethod("stop_agent")
       THEN \E term \in TerminateOutcomes, w1 \in WaitOutcomes,
               k \in KillOutcomes, w2 \in WaitOutcomes \ {"timeout"} :
              /\ DoStop(term, w1, k, w2)
              /\ svc_event' = [NoEvent EXCEPT
                    !.call = "POST /voice-agent/stop",
                    !.was_running = TRUE,
                    !.before = agent_process,
                    !.ops = StopOps(term, w1, k, w2),
                    !.wait = w1,
                    !.caught = StopCaught(term, w1, k, w2),
                    !.status = "stopped"]
       ELSE \* AttributeError, caught: HTTPException(status_code=500)
            /\ svc_event' = [NoEvent EXCEPT !.call = "POST /voice-agent/stop",
                                            !.was_running = TRUE,
                                            !.before = agent_process,
                                            !.status = "500"]
            /\ UNCHANGED <<spawned, agent_process, is_running, proc>>
    /\ UNCHANGED <<server, ovars>>

AfterStartupPropagates(failed) == IF failed THEN "crashed" ELSE "serving"

\* except Exception as e: logger.error(...), then yield
AfterStartup(failed) == "serving"

\* lifespan up to its yield
LifespanStartup ==
    /\ server = "starting"
    /\ IF HasMethod("start_agent")
       THEN \E out \in PopenMay :
              /\ DoStart(out)
              /\ server' = AfterStartup(StartRaises(out))
              /\ svc_event' = [NoEvent EXCEPT !.call = "lifespan startup",
                                              !.was_running = is_running,
                                              !.before = agent_process,
                                              !.ops = StartOps(out),
                                              !.raised = StartRaises(out)]
       ELSE \* AttributeError, caught and logged
            /\ server' = AfterStartup(TRUE)
            /\ svc_event' = [NoEvent EXCEPT !.call = "lifespan startup",
                                            !.was_running = is_running,
                                            !.before = agent_process,
                                            !.raised = TRUE]
            /\ UNCHANGED <<spawned, agent_process, is_running, proc>>
    /\ UNCHANGED ovars

\* lifespan after its yield
LifespanShutdown ==
    /\ server = "serving"
    /\ server' = "stopped"
    /\ IF HasMethod("stop_agent")
       THEN \E term \in TerminateOutcomes, w1 \in WaitOutcomes,
               k \in KillOutcomes, w2 \in WaitOutcomes \ {"timeout"} :
              /\ DoStop(term, w1, k, w2)
              /\ svc_event' = [NoEvent EXCEPT
                    !.call = "lifespan shutdown",
                    !.was_running = is_running,
                    !.before = agent_process,
                    !.ops = StopOps(term, w1, k, w2),
                    !.wait = w1,
                    !.caught = StopCaught(term, w1, k, w2)]
       ELSE \* AttributeError, caught and logged
            /\ svc_event' = [NoEvent EXCEPT !.call = "lifespan shutdown",
                                            !.was_running = is_running,
                                            !.before = agent_process,
                                            !.raised = TRUE]
            /\ UNCHANGED <<spawned, agent_process, is_running, proc>>
    /\ UNCHANGED ovars

\* ---------------------------------------------------------- specifications
\* VoiceAgentService.__init__, and the server before its lifespan begins
InitService ==
    /\ is_running = FALSE
    /\ agent_process = None
    /\ proc = [h \in Handles |-> "none"]
    /\ spawned = 0
    /\ server = "starting"
    /\ svc_event = NoEvent

InitRuns ==
    /\ InitService
    /\ signal = None
    /\ pc = [r \in Runs |-> "idle"]
    /\ waited = [r \in Runs |-> 0]
    /\ live_url = [r \in Runs |-> None]
    /\ sleeps = [r \in Runs |-> 0]
    /\ reads = [r \in Runs |-> 0]
    /\ room_seen = [r \in Runs |-> "none"]
    /\ rpc_calls = [r \in Runs |-> 0]
    /\ rpc_payload = [r \in Runs |-> NoPayload]
    /\ automation_task = [r \in Runs |-> "none"]
    /\ stale_for = {}
    /\ returned = NoReturn

\* the program: the timeout and interval written in the code
Init ==
    /\ T = max_wait_time
    /\ I = wait_interval
    /\ overlap = MaxInFlight
    /\ clock = FALSE
    /\ InitRuns

\* the polling loop with the code's timeout and interval and with every small
\* timeout and interval
InitAny ==
    /\ \/ T = max_wait_time /\ I = wait_interval
       \/ T \in 1..MaxTimeout /\ I \in 1..MaxInterval
    /\ overlap = MaxInFlight
    /\ clock = FALSE
    /\ InitRuns

Next ==
    \E r \in Runs :
        \/ Invoke(r)
        \/ Wake(r)
        \/ RpcReturn(r)
        \/ EngineNotify(r)
        \/ EngineEnd(r)

Spec == Init /\ [][Next]_vars

SpecAny == InitAny /\ [][Next]_vars

\* two invocations may be in flight at once
InitConcurrent ==
    /\ T = max_wait_time
    /\ I = wait_interval
    /\ overlap = 2
    /\ clock = FALSE
    /\ InitRuns

\* one invocation at a time, with the time it takes recorded
InitTimed ==
    /\ T = max_wait_time
    /\ I = wait_interval
    /\ overlap = 1
    /\ clock = TRUE
    /\ InitRuns

SpecConcurrent == InitConcurrent /\ [][Next]_vars

\* asyncio.sleep returns after its delay and perform_rpc returns or raises
\* within response_timeout; nothing makes the engine call back or end
Fairness == \A r \in Runs : WF_vars(Wake(r)) /\ WF_vars(RpcReturn(r))

SpecTimed == InitTimed /\ [][Next]_vars /\ Fairness

\* the server's lifespan, its voice agent routes and the service's methods
NextService ==
    \/ LifespanStartup
    \/ LifespanShutdown
    \/ RouteStartAgent
    \/ RouteStopAgent
    \/ StartAgent
    \/ StopAgent

SpecService == Init /\ [][NextService]_vars

\* ------------------------------------------------------------------ claims
\* r's sleep ends in this step and the loop body runs (one read of the slot)
PollStep(r) ==
    pc[r] = "sleeping" /\ (pc'[r] # "sleeping" \/ reads'[r] # reads[r])

\* r's polling loop ends in this step
LeavesLoop(r) == pc[r] = "sleeping" /\ pc'[r] # "sleeping"

\* the time r has slept when the sleep in progress ends: every sleep takes I
Elapsed(r) == sleeps[r] * I

\* the dictionary {"success": True, "message": ..., "live_url": url}
IsSuccess(res, url) ==
    /\ res.kind = "success"
    /\ res.success = TRUE
    /\ res.live_url = url

\* C1: an invocation that launches the background task leaves the slot
\* empty: the slot is cleared before the launch, so no invocation is running
\* with a value in the slot from before it began.
C1_ResetBeforeLaunch ==
    [][\A r \in Runs :
         (pc[r] = "idle" /\ automation_task'[r] = "running")
            => signal' = None]_vars

\* an earlier run stored its URL and responded; a later run has been
\* launched and the slot is empty
C1_Witness ==
    \E q, r \in Runs :
        /\ q # r
        /\ pc[q] = "responded" /\ automation_task[q] = "url_written"
        /\ pc[r] = "sleeping" /\ reads[r] = 0 /\ signal = None

\* C2: a read of the polling loop never returns a value that was written
\* before the polling run was invoked; the run sees the slot empty until a
\* write made after its own start.
C2_NoStaleRead ==
    [][\A r \in Runs :
         PollStep(r) => (signal = None \/ r \notin stale_for)]_vars

\* run q wrote its URL and responded; run r, invoked later, has read the
\* slot at least once and found it empty
C2_Witness ==
    \E q, r \in Runs :
        /\ q # r
        /\ pc[q] = "responded" /\ automation_task[q] = "url_written"
        /\ pc[r] = "sleeping" /\ reads[r] >= 1 /\ live_url[r] = None

\* C3: the polling loop has slept at most T + I when its last sleep ends,
\* written or not; with the code's 15 s and 0.5 s it sleeps (and then reads)
\* at most 30 times.
C3_TimeoutBound ==
    \A r \in Runs :
        /\ Elapsed(r) <= T + I
        /\ (T = max_wait_time /\ I = wait_interval)
              => (sleeps[r] <= 30 /\ reads[r] <= 30)

\* with the code's timeout and interval a poller is in its 30th sleep
C3_Witness ==
    \E r \in Runs :
        /\ T = max_wait_time /\ I = wait_interval
        /\ pc[r] = "sleeping" /\ sleeps[r] = 30 /\ reads[r] = 29

\* C4: a check that finds the slot empty before the timeout has elapsed
\* never ends the loop; the check that finds it empty once the timeout has
\* elapsed returns success with live_url null; a run returns once; a poller
\* is never asleep past the deadline.
C4_EmptyAfterFullTimeout ==
    /\ [][\A r \in Runs :
            /\ (PollStep(r) /\ signal = None /\ Elapsed(r) < T)
                  => (pc'[r] = "sleeping" /\ returned'.run # r)
            /\ (PollStep(r) /\ signal = None /\ Elapsed(r) >= T)
                  => (returned'.run = r /\ IsSuccess(returned'.result, None))
            /\ pc[r] = "responded"
                  => (pc'[r] = "responded" /\ returned'.run # r)]_vars
    /\ [](\A r \in Runs : pc[r] = "sleeping" => Elapsed(r) <= T)

\* a run whose engine never fired its callback has returned live_url null
C4_Witness ==
    /\ returned.run \in Runs
    /\ IsSuccess(returned.result, None)
    /\ automation_task[returned.run] = "running"

\* C5: the first check made once the slot holds a value (the check that ends
\* the sleep during which it was written, so within one interval) ends the
\* loop with that value, and the run never sleeps or reads again.
C5_ReturnsAtFirstCheck ==
    [][\A r \in Runs :
         /\ (PollStep(r) /\ signal # None)
               => /\ LeavesLoop(r)
                  /\ \/ pc'[r] = "rpc" /\ live_url'[r] = signal
                     \/ returned'.run = r /\ IsSuccess(returned'.result, signal)
         /\ pc[r] \in {"rpc", "responded"}
               => /\ pc'[r] # "sleeping"
                  /\ sleeps'[r] = sleeps[r] /\ reads'[r] = reads[r]]_vars

\* a poller has left the loop with the URL its own engine wrote
C5_Witness ==
    \E r \in Runs :
        /\ pc[r] = "rpc" /\ live_url[r] = Url(r)
        /\ automation_task[r] = "url_written"

C7_NoPeerStillSuccess ==
    [][\A r \in Runs :
         (pc[r] # "responded" /\ returned'.run = r
            /\ returned'.room \in {"no_room", "no_peers"})
         => /\ pc[r] = "sleeping"
            /\ signal # None
            /\ returned'.rpc_calls = 0
            /\ returned'.relay = "none"
            /\ IsSuccess(returned'.result, signal)]_vars

\* a run has returned a URL without a peer to relay it to
C7_Witness ==
    /\ returned.room \in {"no_room", "no_peers"}
    /\ returned.result.kind = "success"
    /\ returned.result.live_url \in Urls

\* C8: whatever the outcome of the RPC (ok, timeout, error) the run returns
\* the same success result, carrying the value that was relayed.
C8_RelayFailureSwallowed ==
    returned.relay \in RpcOutcomes =>
        returned.result =
            [kind |-> "success", success |-> TRUE,
             message |-> "Here is the demo.",
             live_url |-> returned.payload.liveUrl]

\* a run whose RPC timed out or failed has returned
C8_Witness ==
    /\ returned.relay \in {"timeout", "error"}
    /\ returned.result.kind = "success"
    /\ returned.result.live_url \in Urls

\* C9: a polling loop that ends with the slot empty is followed at once by
\* the return of success with live_url null: the room is not looked at and
\* no RPC is issued.
C9_TimeoutNoRelay ==
    [][\A r \in Runs :
         (LeavesLoop(r) /\ signal = None)
         => /\ returned'.run = r
            /\ returned'.room = "none"
            /\ returned'.relay = "none"
            /\ returned'.rpc_calls = 0
            /\ IsSuccess(returned'.result, None)]_vars

\* a run whose engine reported no URL has timed out and returned
C9_Witness ==
    /\ returned.run \in Runs
    /\ IsSuccess(returned.result, None)
    /\ returned.rpc_calls = 0
    /\ automation_task[returned.run] = "no_url"

\* C10: a polling loop that ends with a value leads to one RPC at most, and
\* the run returns success with live_url equal to the value the poller read.
C10_ValueReturned ==
    /\ [][\A r \in Runs :
            /\ (LeavesLoop(r) /\ signal # None)
                  => \/ /\ pc'[r] = "rpc"
                        /\ live_url'[r] = signal
                        /\ rpc_calls'[r] = 1
                     \/ /\ returned'.run = r
                        /\ returned'.rpc_calls = 0
                        /\ IsSuccess(returned'.result, signal)
            /\ (pc[r] = "rpc" /\ pc'[r] # "rpc")
                  => /\ returned'.run = r
                     /\ returned'.rpc_calls = 1
                     /\ IsSuccess(returned'.result, live_url[r])]_vars
    /\ [](\A r \in Runs : rpc_calls[r] <= 1)

\* a run has relayed its URL and returned it
C10_Witness ==
    /\ returned.relay = "ok"
    /\ returned.rpc_calls = 1
    /\ returned.result.kind = "success"
    /\ returned.result.live_url \in Urls

\* a background task that has not ended
Alive == {"running", "url_written", "no_url"}

\* C11: a run whose launch raised returns an error-shaped result (an error
\* field, no success field) without a relay; a run that has not launched a
\* task is never in the polling loop or in an RPC and has slept, read and
\* called nothing.
C11_LaunchErrorResult ==
    /\ returned.result.kind = "error"
          => /\ DOMAIN returned.result = {"kind", "error"}
             /\ returned.rpc_calls = 0
             /\ returned.relay = "none"
             /\ returned.room = "none"
             /\ pc[returned.run] = "responded"
             /\ automation_task[returned.run] = "none"
    /\ \A r \in Runs :
          automation_task[r] = "none"
             => /\ pc[r] \in {"idle", "responded"}
                /\ sleeps[r] = 0 /\ reads[r] = 0 /\ rpc_calls[r] = 0

\* a launch has failed and the run has returned the error
C11_Witness ==
    /\ returned.run \in Runs
    /\ returned.result.kind = "error"
    /\ automation_task[returned.run] = "none"

\* C12 as stated: the error field is exactly the message of the exception.
C12_Original ==
    returned.result.kind = "error" => returned.result.error \in LaunchErrors

\* C12 amended: the error field is "Unable to start demo: " followed by the
\* message of the exception.
C12_ErrorMessagePrefixed ==
    returned.result.kind = "error"
       => \E M \in LaunchErrors :
             returned.result.error = "Unable to start demo: " \o M

\* the launch raised "missing credentials" and the run has returned
C12_Witness ==
    /\ returned.result.kind = "error"
    /\ returned.result.error = "Unable to start demo: missing credentials"

\* C13: the step in which the engine's exception ends the background task is
\* not a return of the tool and leaves the task finished with the error
\* printed; no background task is ever ended by an unhandled exception.
C13_EngineErrorCaught ==
    /\ \A r \in Runs : automation_task[r] # "crashed"
    /\ returned.printed # "none"
          => /\ returned.run = 0
             /\ returned.result.kind = "none"
             /\ \E r \in Runs : automation_task[r] = "finished"

\* the engine has raised while its run is still polling
C13_Witness ==
    /\ returned.printed = "Demo automation error"
    /\ \E r \in Runs : automation_task[r] = "finished" /\ pc[r] = "sleeping"

\* C14 as stated: every response comes within the polling timeout.
C14_Original ==
    returned.run \in Runs => returned.took <= T

\* C14 amended: an invocation in flight always responds, whether or not its
\* background task calls back or ends; it responds within the polling
\* timeout when no RPC is issued, and within the polling timeout plus the
\* RPC's response timeout otherwise.
C14_RespondsDecoupled ==
    /\ \A r \in Runs : (pc[r] \in {"sleeping", "rpc"}) ~> (pc[r] = "responded")
    /\ [](returned.run \in Runs
            => /\ returned.took <= T + response_timeout
               /\ returned.rpc_calls = 0 => returned.took <= T)

\* a run has responded after more than the polling timeout, its background
\* task still running
C14_Witness ==
    /\ returned.run \in Runs
    /\ returned.took > T
    /\ returned.relay = "timeout"
    /\ automation_task[returned.run] \in Alive

\* C15: every run that launched its task returns a success-shaped result
\* with a URL or null; only a run that launched nothing returns an error.
C15_OnlyLaunchErrorPropagates ==
    returned.run \in Runs
       => IF automation_task[returned.run] = "none"
          THEN returned.result.kind = "error"
          ELSE /\ returned.result.kind = "success"
               /\ returned.result.success = TRUE
               /\ returned.result.live_url \in Urls \cup {None}

\* the relay failed and the background task has ended, and the run returns
\* success
C15_Witness ==
    /\ returned.relay = "error"
    /\ returned.result.kind = "success"
    /\ automation_task[returned.run] = "finished"

\* C16: no step of an invocation after the launch changes the state of its
\* background task; no task is ever cancelled; a task that has not ended
\* when its run has responded can still run to its end.
C16_NeverCancelsOrJoins ==
    /\ [][\A r \in Runs :
            (pc[r] # "idle" /\ pc'[r] # pc[r])
               => automation_task'[r] = automation_task[r]]_vars
    /\ [](\A r \in Runs :
            /\ automation_task[r] # "cancelled"
            /\ (pc[r] = "responded" /\ automation_task[r] \in Alive)
                  => ENABLED EngineEnd(r))

\* a run responded some step ago and its background task has not ended
C16_Witness ==
    \E r \in Runs :
        /\ pc[r] = "responded"
        /\ automation_task[r] \in Alive
        /\ returned.run # r

\* C17: a poller that finds in the slot the URL of another run takes it: it
\* goes into the payload of its RPC or into its result.
C17_ConcurrentRunsRace ==
    [][\A r, q \in Runs :
         (q # r /\ PollStep(r) /\ signal = Url(q))
            => \/ /\ pc'[r] = "rpc"
                  /\ rpc_payload'[r].liveUrl = Url(q)
                  /\ live_url'[r] = Url(q)
               \/ /\ returned'.run = r
                  /\ IsSuccess(returned'.result, Url(q))]_vars

\* with A and B both in flight, A has relayed and returned B's URL
C17_Witness ==
    \E A, B \in Runs :
        /\ A # B
        /\ returned.run = A
        /\ returned.relay = "ok"
        /\ returned.payload.liveUrl = Url(B)
        /\ returned.result.live_url = Url(B)
        /\ pc[B] \in {"sleeping", "rpc"}

\* C18: a poller that is sleeping or has read has launched its task; in its
\* first sleep it has not read yet.
C18_LaunchBeforeFirstRead ==
    \A r \in Runs :
        /\ (pc[r] = "sleeping" \/ sleeps[r] > 0 \/ reads[r] > 0)
              => automation_task[r] # "none"
        /\ (pc[r] = "sleeping" /\ sleeps[r] = 1)
              => (reads[r] = 0 /\ live_url[r] = None)

\* the task was launched and stored its URL before the poller's first read
C18_Witness ==
    \E r \in Runs :
        /\ pc[r] = "sleeping" /\ sleeps[r] = 1 /\ reads[r] = 0
        /\ automation_task[r] = "url_written"

\* C19: no invocation issues more than one RPC call, and a run that returns
\* after an RPC, whatever its outcome, has issued exactly one.
C19_RelayNotRetried ==
    /\ \A r \in Runs : rpc_calls[r] <= 1
    /\ returned.rpc_calls <= 1
    /\ returned.relay \in RpcOutcomes => returned.rpc_calls = 1

\* an RPC has timed out and the run has returned after that one call
C19_Witness ==
    /\ returned.relay = "timeout"
    /\ returned.rpc_calls = 1

\* C20: a poller asleep has begun exactly one sleep more than it has read:
\* sleeps and reads alternate, one sleep before every read.
C20_CooperativeLoop ==
    \A r \in Runs :
        pc[r] = "sleeping" => sleeps[r] = reads[r] + 1

\* the engine has stored its URL during the sleep between two reads
C20_Witness ==
    \E r \in Runs :
        /\ pc[r] = "sleeping" /\ reads[r] >= 2
        /\ live_url[r] = None /\ signal = Url(r)

\* C21: a read leaves the slot as it is: after a run has returned straight
\* from the check that ended its loop, the slot still holds what that check
\* read.
C21_ReadNonDestructive ==
    (returned.run \in Runs /\ returned.relay = "none"
        /\ returned.result.kind = "success")
       => signal = returned.result.live_url

\* a run has read a URL and returned it, and the URL is still in the slot
C21_Witness ==
    /\ returned.run \in Runs
    /\ returned.relay = "none"
    /\ returned.result.kind = "success"
    /\ returned.result.live_url \in Urls
    /\ signal = returned.result.live_url

\* C22: the lifespan's startup never fails: the step that runs it ends with
\* the server serving, whatever starting the agent did, and a serving server
\* answers its routes.
C22_StartupCompletes ==
    /\ server # "crashed"
    /\ svc_event.call = "lifespan startup" => server = "serving"
    /\ server = "serving" => (ENABLED RouteStartAgent /\ ENABLED RouteStopAgent)

\* starting the agent raised, and the server serves without an agent
C22_Witness ==
    /\ svc_event.call = "lifespan startup"
    /\ svc_event.raised
    /\ server = "serving"
    /\ ~is_running

\* C23: POST /voice-agent/start on a stopped agent answers "started" and the
\* agent runs; POST /voice-agent/stop on a running agent answers "stopped"
\* and the agent no longer runs; in the requested state already they answer
\* "already_running" / "already_stopped" and call nothing.
C23_RoutesStartStop ==
    /\ (svc_event.call = "POST /voice-agent/start" /\ ~svc_event.was_running)
          => (svc_event.status = "started" /\ is_running)
    /\ (svc_event.call = "POST /voice-agent/stop" /\ svc_event.was_running)
          => (svc_event.status = "stopped" /\ ~is_running)
    /\ (svc_event.call = "POST /voice-agent/start" /\ svc_event.was_running)
          => (svc_event.status = "already_running" /\ svc_event.ops = <<>>)
    /\ (svc_event.call = "POST /voice-agent/stop" /\ ~svc_event.was_running)
          => (svc_event.status = "already_stopped" /\ svc_event.ops = <<>>)

\* C24: with one invocation at a time, the URL a run returns is the URL of
\* its own engine.
C24_OwnUrlOnly ==
    (returned.run \in Runs /\ returned.result.kind = "success"
        /\ returned.result.live_url # None)
       => returned.result.live_url = Url(returned.run)

\* C25: the check that ends the loop comes after as many sleeps as reads,
\* the read of that check counted, at least 1 and at most 30; no run that
\* launched its task responds before one interval has passed.
C25_SleepBeforeFirstRead ==
    /\ [][\A r \in Runs :
            LeavesLoop(r)
               => /\ sleeps[r] = reads[r] + 1
                  /\ sleeps[r] >= 1 /\ sleeps[r] <= 30
                  /\ Elapsed(r) >= I]_vars
    /\ []((returned.run \in Runs /\ returned.result.kind = "success")
             => returned.took >= I)

\* a run has found the URL at its first check and responded after one
\* interval
C25_Witness ==
    /\ returned.run \in Runs
    /\ returned.result.kind = "success"
    /\ returned.result.live_url \in Urls
    /\ returned.took = I

\* C26: an RPC is in flight only with a non-empty URL and a remote
\* participant, its payload carries that URL, and the run that returns after
\* it returns the URL of the payload.
C26_PayloadMatchesResult ==
    /\ \A r \in Runs :
          (pc[r] = "rpc" \/ rpc_calls[r] > 0)
             => /\ room_seen[r] = "peer"
                /\ live_url[r] # None
                /\ rpc_payload[r].liveUrl = live_url[r]
    /\ returned.rpc_calls > 0
          => /\ returned.room = "peer"
             /\ returned.result.kind = "success"
             /\ returned.result.live_url # None
             /\ returned.payload.liveUrl = returned.result.live_url

\* an RPC carrying a URL is in flight to a remote participant
C26_Witness ==
    \E r \in Runs :
        /\ pc[r] = "rpc" /\ room_seen[r] = "peer"
        /\ rpc_payload[r].liveUrl \in Urls

\* C27: is_running is true exactly when agent_process is not None.
C27_RunningIffProcess ==
    is_running <=> agent_process # None

\* a stop has failed part-way and the service is still in the running state
C27_Witness ==
    /\ svc_event.call = "_stop_agent"
    /\ svc_event.caught
    /\ is_running
    /\ agent_process # None

\* C28: _start_agent on a running service and _stop_agent on a stopped one
\* call nothing and leave agent_process and is_running as they were; every
\* subprocess that has not been stopped is the one agent_process holds.
C28_Idempotent ==
    /\ (svc_event.call = "_start_agent" /\ svc_event.was_running)
          => /\ svc_event.ops = <<>>
             /\ ~svc_event.raised
             /\ is_running
             /\ agent_process = svc_event.before
    /\ (svc_event.call = "_stop_agent" /\ ~svc_event.was_running)
          => /\ svc_event.ops = <<>>
             /\ ~is_running
             /\ agent_process = svc_event.before
    /\ \A h \in Handles :
          proc[h] \in {"running", "terminating"} => agent_process = h

\* _start_agent has been called on a running service
C28_Witness ==
    /\ svc_event.call = "_start_agent"
    /\ svc_event.was_running
    /\ is_running
    /\ agent_process \in Handles

\* C29: _stop_agent on a running agent calls terminate first and kill only
\* after wait(timeout=5) timed out; it raises nothing; it leaves the service
\* stopped when nothing was raised inside and running when something was.
C29_GracefulThenKill ==
    (svc_event.call = "_stop_agent" /\ svc_event.was_running)
       => /\ svc_event.ops # <<>>
          /\ svc_event.ops[1] = "terminate"
          /\ (\E i \in DOMAIN svc_event.ops : svc_event.ops[i] = "kill")
                <=> (Len(svc_event.ops) >= 3 /\ svc_event.wait = "timeout")
          /\ Len(svc_event.ops) >= 3
                => (svc_event.ops[2] = "wait" /\ svc_event.ops[3] = "kill")
          /\ ~svc_event.raised
          /\ IF svc_event.caught
             THEN is_running /\ agent_process = svc_event.before
             ELSE ~is_running /\ agent_process = None

\* the process did not exit within the wait and was killed
C29_Witness ==
    /\ svc_event.call = "_stop_agent"
    /\ svc_event.ops = <<"terminate", "wait", "kill", "wait">>
    /\ ~svc_event.caught
    /\ ~is_running

====
